---- MODULE Spec2Model ----
(***************************************************************************)
(* A model of the two reporter loops of telliot-feeds:                     *)
(*   FlashbotsReporter   (telliot_feed_examples/reporters/flashbot.py)     *)
(*   ConditionalReporter (telliot_feeds/reporters/customized/              *)
(*                        conditional_reporter.py)                         *)
(*                                                                         *)
(* One behaviour follows one reporter object: Init chooses the class and   *)
(* the constructor arguments, and each action is one sequential step of    *)
(* the coroutine between two suspension points; pc is its position.        *)
(*                                                                         *)
(* Representation.                                                         *)
(*  - Python's None is the integer None (-1), outside the range of every   *)
(*    fee, price, reward and counter of the model.                         *)
(*  - An unhandled Python exception moves pc to "crashed" (inside report)  *)
(*    or "init_aborted" (inside __init__) and records its class in exc.    *)
(*  - Python floats are taken as exact rationals.  Token amounts are held  *)
(*    in units of 10^13 wei and gas in units of 10^4 gas, so that the      *)
(*    divisors 1e18 (line 174) and 1e9 (line 175) both become 10^5 and     *)
(*    every product fits the model checker's integers: gas_limit 350000    *)
(*    is 35, one TRB (1e18) is 100000.  USD amounts are integers in units  *)
(*    of 10^-5 USD; percent_profit is the pair (numerator, denominator).   *)
(*  - Line 113 of conditional_reporter.py ("eilf tellor_value") is not a   *)
(*    Python statement; the model translates the statements around it.     *)
(***************************************************************************)
EXTENDS Integers, Sequences, FiniteSets, TLC

\* Number of report cycles one behaviour follows.
MaxCycles == 2

\* Python's None.
None == -1

\* ResponseStatus().error when no error was recorded.
NoError == "None"

\* The value no exception was raised.
NoExc == "None"

(***************************************************************************)
(* Input domains                                                           *)
(***************************************************************************)
\* transaction_type: 0 (legacy) and 2 (EIP-1559)
TransactionTypes == {0, 2}

\* gas_limit in units of 10^4 gas: 0 and the default 350000
GasLimits == {0, 35}

\* expected_profit: the sentinel "YOLO" or a number (percent)
YOLO == [tag |-> "str", n |-> 0]

Num(n) == [tag |-> "num", n |-> n]

ExpectedProfits == {YOLO, Num(1), Num(100)}

\* max_fee, priority_fee, legacy_gas_price given to the constructor (gwei)
MaxFees == {None, 0, 60}

PriorityFees == {None, 5}

LegacyGasPrices == {None, 0, 50}

\* getCurrentReward: tips and time-based reward (units of 10^13 wei)
TipValues == {0, 100000}

RewardValues == {0, 100000}

\* USD prices of ETH and TRB after the fetch (None: no price)
EthPrices == {None, 0, 2000}

TrbPrices == {None, 1, 35}

\* Etherscan fee info and the ethgasstation gas price (gwei)
FeeInfos == {[suggestBaseFee |-> b, SafeGasPrice |-> 2] : b \in {40, 50}}

GasPrices == {None, 50, 60}

\* getTimestampCountById, the account transaction count, the block number
TimestampCounts == {0, 3}

AccountNonces == {7}

BlockNumbers == {100, 200}

\* Report loops run as tasks of one event loop on one account
NumLoops == 2

Loops == 1..NumLoops

\* Cycles each of these loops runs
MaxSharedCycles == 2

\* ConditionalReporter: time in seconds
StaleTimeouts == {5}

Times == {10, 11}

TimestampsRetrieved == {4, 5, 6}

ReportCounts == {None, 0, 1, 2}

VARIABLES
    reporter,                  \* "flashbots" or "conditional"
    pc,                        \* position of the reporter's coroutine
    exc,                       \* class of the unhandled exception, if any
    cycle,                     \* report cycles started
    \* FlashbotsReporter attributes (__init__, lines 59-72)
    transaction_type, gas_limit, expected_profit,
    max_fee, priority_fee, legacy_gas_price,
    last_submission_timestamp,
    staked_ret,                \* <<>> or <<staked, status.ok>> of ensure_staked
    flashbots_ready,           \* flashbot(...) was set up (line 89)
    \* locals of ensure_profitable and report_once
    rewards,                   \* <<tips, tb_reward>> or <<>>
    price_eth_usd, price_trb_usd,
    costs,
    profit_status,             \* <<>> or <<status returned by ensure_profitable>>
    timestamp_count,
    built_tx,                  \* <<>> or <<the dict given to sign_transaction>>
    results,                   \* target blocks of the bundles sent, in order
    ret,                       \* <<>> or <<[receipt, status] returned by report_once>>
    fee_info,                  \* <<>> or <<the fee info get_fee_info returned>>
    block,                     \* block number read before the bundles are sent
    result,                    \* target block of the bundle that is waited for
    signed_count,              \* sign_transaction calls of this cycle
    bundles,                   \* what each send_bundle call of this cycle was given
    \* ConditionalReporter attributes and locals
    datafeed, stale_timeout, report_count,
    cond_ret,                  \* "none", "true", "false" or "raised"
    tellor_data,               \* <<>> (None) or <<GetDataBefore>>
    now,
    \* several report loops of one event loop sharing one account
    lpc,                       \* position of each loop
    lcycle,                    \* cycles each loop has started
    chain_count,               \* transaction count of the account on the chain
    pending,                   \* per loop: None, or the account transaction count
                               \* of its signed transaction while unconfirmed
    \* an EVMCall query, its query data and the query rebuilt from them
    evm_pc,                    \* "off", "new", "encoded", "decoded" or "done"
    q,                         \* <<>> or <<the EVMCall query>>
    query_data,                \* q.query_data, a sequence of bytes
    q2,                        \* <<>> (None) or <<the query get_query_from_data returned>>
    query_data2,               \* q2.query_data
    \* a call of filter_batch_result
    batch_pc,                  \* "off", "call" or "done"
    batch_data,                \* the dictionary given: its (key, value) items in
                               \* insertion order, a key being <<label, query_id>>
    batch_results,             \* the dictionary returned, as its items in order
    \* history of the current cycle
    steps,                     \* sub-steps done in this cycle
    fails                      \* sub-steps that failed in this cycle

cfgVars == <<transaction_type, gas_limit, expected_profit>>

feeVars == <<max_fee, priority_fee, legacy_gas_price>>

localVars == <<rewards, price_eth_usd, price_trb_usd, costs, profit_status,
               timestamp_count, built_tx, results, ret>>

submitVars == <<fee_info, block, result>>

bundleVars == <<signed_count, bundles>>

sharedVars == <<lpc, lcycle, chain_count, pending>>
evmVars == <<evm_pc, q, query_data, q2, query_data2>>
batchVars == <<batch_pc, batch_data, batch_results>>

condVars == <<datafeed, stale_timeout, report_count, cond_ret, tellor_data, now>>

vars == <<reporter, pc, exc, cycle, cfgVars, feeVars, last_submission_timestamp,
          staked_ret, flashbots_ready, localVars, submitVars, bundleVars, condVars,
          sharedVars,
          evmVars, batchVars, steps, fails>>

(***************************************************************************)
(* ResponseStatus                                                          *)
(***************************************************************************)
\* ResponseStatus(): ok defaults to True, error to None
ResponseStatus == [ok |-> TRUE, error |-> NoError]

\* error_status(msg): a status with ok False and the message
error_status(msg) == [ok |-> FALSE, error |-> msg]

IsYolo(e) == e.tag = "str"

\* the locals as they are when a cycle starts
ClearLocals ==
    /\ rewards' = <<>>
    /\ price_eth_usd' = None
    /\ price_trb_usd' = None
    /\ costs' = None
    /\ profit_status' = <<>>
    /\ timestamp_count' = None
    /\ built_tx' = <<>>
    /\ results' = <<>>
    /\ ret' = <<>>
    /\ fee_info' = <<>>
    /\ block' = None
    /\ result' = None
    /\ signed_count' = 0
    /\ bundles' = <<>>

\* an unhandled exception leaves report(): the loop is over
Raise(e) ==
    /\ pc' = "crashed"
    /\ exc' = e

(***************************************************************************)
(* Init: the attributes assigned by __init__ before its first call         *)
(***************************************************************************)
InitFlashbots ==
    /\ reporter = "flashbots"
    /\ pc = "ctor_staked"
    /\ transaction_type \in TransactionTypes
    /\ gas_limit \in GasLimits
    /\ expected_profit \in ExpectedProfits
    /\ max_fee \in MaxFees
    /\ priority_fee \in PriorityFees
    /\ legacy_gas_price \in LegacyGasPrices
    /\ datafeed = "feed"
    /\ stale_timeout = None
    /\ report_count = None

InitConditional ==
    /\ reporter = "conditional"
    /\ pc = "c_loop"
    /\ transaction_type = 0
    /\ gas_limit = 35
    /\ expected_profit = Num(100)
    /\ max_fee = None
    /\ priority_fee = None
    /\ legacy_gas_price = None
    /\ datafeed \in {"None", "feed"}
    /\ stale_timeout \in StaleTimeouts
    /\ report_count \in ReportCounts

\* no loop of the shared-account scenario runs
SharedOff ==
    /\ lpc = [i \in Loops |-> "off"]
    /\ lcycle = [i \in Loops |-> 0]
    /\ chain_count = 0
    /\ pending = [i \in Loops |-> None]

EVMOff ==
    /\ evm_pc = "off"
    /\ q = <<>>
    /\ query_data = <<>>
    /\ q2 = <<>>
    /\ query_data2 = <<>>

BatchOff ==
    /\ batch_pc = "off"
    /\ batch_data = <<>>
    /\ batch_results = <<>>

Init ==
    /\ InitFlashbots \/ InitConditional
    /\ SharedOff
    /\ EVMOff
    /\ BatchOff
    /\ exc = NoExc
    /\ cycle = 0
    /\ last_submission_timestamp = 0
    /\ staked_ret = <<>>
    /\ flashbots_ready = FALSE
    /\ rewards = <<>>
    /\ price_eth_usd = None
    /\ price_trb_usd = None
    /\ costs = None
    /\ profit_status = <<>>
    /\ timestamp_count = None
    /\ built_tx = <<>>
    /\ results = <<>>
    /\ ret = <<>>
    /\ fee_info = <<>>
    /\ block = None
    /\ result = None
    /\ signed_count = 0
    /\ bundles = <<>>
    /\ cond_ret = "none"
    /\ tellor_data = <<>>
    /\ now = 0
    /\ steps = {}
    /\ fails = {}

(***************************************************************************)
(* FlashbotsReporter.__init__, lines 76-89                                 *)
(***************************************************************************)
\* EnsureStaked with the assertion checking staked only, not status.ok
EnsureStakedIgnoresStatus(staked, ok) ==
    /\ pc = "ctor_staked"
    /\ staked_ret' = <<staked, ok>>
    /\ IF staked
         THEN /\ pc' = "ctor_flashbots"
              /\ exc' = exc
         ELSE /\ pc' = "init_aborted"
              /\ exc' = "AssertionError"
    /\ UNCHANGED <<reporter, bundleVars, batchVars, evmVars, sharedVars, submitVars, cycle, cfgVars, feeVars, last_submission_timestamp,
                   flashbots_ready, localVars, condVars, steps, fails>>

\* staked, status = asyncio.run(self.ensure_staked()); assert staked and status.ok
EnsureStaked(staked, ok) ==
    /\ pc = "ctor_staked"
    /\ staked_ret' = <<staked, ok>>
    /\ IF staked /\ ok
         THEN /\ pc' = "ctor_flashbots"
              /\ exc' = exc
         ELSE /\ pc' = "init_aborted"
              /\ exc' = "AssertionError"
    /\ UNCHANGED <<reporter, bundleVars, batchVars, evmVars, sharedVars, submitVars, cycle, cfgVars, feeVars, last_submission_timestamp,
                   flashbots_ready, localVars, condVars, steps, fails>>

\* Account.from_key(...) and flashbot(self.endpoint._web3, self.signature, uri)
SetupFlashbots ==
    /\ pc = "ctor_flashbots"
    /\ flashbots_ready' = TRUE
    /\ pc' = "report"
    /\ UNCHANGED <<reporter, bundleVars, batchVars, evmVars, sharedVars, staked_ret, submitVars, exc, cycle, cfgVars, feeVars, last_submission_timestamp,
                   localVars, condVars, steps, fails>>

(***************************************************************************)
(* FlashbotsReporter.report, lines 334-339                                 *)
(***************************************************************************)
\* while True: _, _ = await self.report_once()
ReportLoop ==
    /\ pc = "report"
    /\ cycle < MaxCycles
    /\ cycle' = cycle + 1
    /\ pc' = "lock"
    /\ ClearLocals
    /\ steps' = {}
    /\ fails' = {}
    /\ UNCHANGED <<reporter, batchVars, evmVars, sharedVars, staked_ret, exc, cfgVars, feeVars, last_submission_timestamp,
                   flashbots_ready, condVars>>

\* await asyncio.sleep(7)
Sleep ==
    /\ pc = "sleep"
    /\ pc' = "report"
    /\ UNCHANGED <<reporter, bundleVars, batchVars, evmVars, sharedVars, staked_ret, submitVars, exc, cycle, cfgVars, feeVars, last_submission_timestamp,
                   flashbots_ready, localVars, condVars, steps, fails>>

(***************************************************************************)
(* FlashbotsReporter.report_once, lines 207-213: the two gates             *)
(***************************************************************************)
\* the last report timestamp the lock check can read from the chain
LockTimestamps == {0, 1000}

\* check_reporter_lock keeps the reporter's last submission timestamp in
\* self.last_submission_timestamp until it is reset to 0
SavedSubmissionTimestamp(lst, ts) == IF lst = 0 THEN ts ELSE lst

\* the tuple report_once returns
Return(receipt, status) == <<[receipt |-> receipt, status |-> status]>>

\* CheckReporterLock without the early return on a failed lock check
CheckReporterLockNoReturn(ok) ==
    /\ pc = "lock"
    /\ pc' = "rewards"
    /\ IF ok
         THEN /\ steps' = steps \cup {"lock_ok"}
              /\ fails' = fails
         ELSE /\ steps' = steps \cup {"lock_fail"}
              /\ fails' = fails \cup {"lock"}
    /\ \E ts \in LockTimestamps :
          last_submission_timestamp' =
              SavedSubmissionTimestamp(last_submission_timestamp, ts)
    /\ UNCHANGED <<reporter, bundleVars, batchVars, evmVars, sharedVars, staked_ret, submitVars, exc, cycle, cfgVars, feeVars,
                   flashbots_ready, localVars, condVars>>

\* status = await self.check_reporter_lock(); if not status.ok: return None, status
CheckReporterLock(ok) ==
    /\ pc = "lock"
    /\ IF ok
         THEN /\ pc' = "rewards"
              /\ steps' = steps \cup {"lock_ok"}
              /\ UNCHANGED <<ret, fails>>
         ELSE /\ pc' = "sleep"
              /\ steps' = steps \cup {"lock_fail"}
              /\ fails' = fails \cup {"lock"}
              /\ ret' = Return(None, error_status("Current reporter is locked"))
    /\ \E ts \in LockTimestamps :
          last_submission_timestamp' =
              SavedSubmissionTimestamp(last_submission_timestamp, ts)
    /\ UNCHANGED <<reporter, bundleVars, batchVars, evmVars, sharedVars, staked_ret, submitVars, exc, cycle, cfgVars, feeVars,
                   flashbots_ready, rewards, price_eth_usd, price_trb_usd, costs,
                   profit_status, timestamp_count, built_tx, results, condVars>>

(***************************************************************************)
(* FlashbotsReporter.ensure_profitable, lines 96-188                       *)
(***************************************************************************)
\* lines 99-111: rewards, read_status = await self.oracle.read("getCurrentReward")
\* rw is <<>> for rewards None; read_status.error is None when the read is ok
ReadCurrentReward(read_status, rw) ==
    /\ pc = "rewards"
    /\ IF (~read_status.ok) \/ (rw = <<>>)
         THEN IF read_status.error = NoError
                THEN \* "..." + None
                     /\ Raise("TypeError")
                     /\ fails' = fails \cup {"rewards"}
                     /\ UNCHANGED <<rewards, profit_status, ret, steps>>
                ELSE /\ profit_status' =
                          <<[ok |-> FALSE,
                             error |-> "Unable to retrieve queryID's current rewards:"]>>
                     /\ ret' = Return(None, profit_status'[1])
                     /\ pc' = "sleep"
                     /\ steps' = steps \cup {"profit_fail"}
                     /\ fails' = fails \cup {"rewards"}
                     /\ UNCHANGED <<rewards, exc>>
         ELSE /\ rewards' = rw
              /\ pc' = "prices"
              /\ UNCHANGED <<exc, profit_status, ret, steps, fails>>
    /\ UNCHANGED <<reporter, bundleVars, batchVars, evmVars, sharedVars, staked_ret, submitVars, cycle, cfgVars, feeVars, last_submission_timestamp,
                   flashbots_ready, price_eth_usd, price_trb_usd, costs,
                   timestamp_count, built_tx, results, condVars>>

\* lines 114-119: asyncio.gather of the two fetches, then source.latest[0] of each
FetchPrices(pe, pt) ==
    /\ pc = "prices"
    /\ price_eth_usd' = pe
    /\ price_trb_usd' = pt
    /\ fails' = fails \cup (IF pe = None THEN {"price_eth"} ELSE {})
                      \cup (IF pt = None THEN {"price_trb"} ELSE {})
    /\ pc' = "fees"
    /\ UNCHANGED <<reporter, bundleVars, batchVars, evmVars, sharedVars, staked_ret, submitVars, exc, cycle, cfgVars, feeVars, last_submission_timestamp,
                   flashbots_ready, rewards, costs, profit_status, timestamp_count,
                   built_tx, results, ret, condVars, steps>>

\* lines 129-134: the priority fee after resolution
ResolvedPriorityFee(pf, info) ==
    IF pf = None THEN info.SafeGasPrice ELSE pf

\* ResolvedMaxFee computed anew in every cycle
ResolvedMaxFeeRecomputed(mf, pf, base_fee) == pf + base_fee

\* lines 136-140: the max fee after resolution
ResolvedMaxFee(mf, pf, base_fee) ==
    IF mf = None THEN pf + base_fee ELSE mf

\* lines 153, 170: costs = self.gas_limit * fee
Costs(gl, fee) == gl * fee

\* lines 124-153, get_fee_info returned fee_info = (info, timestamp)
ResolveFeesType2(info) ==
    /\ pc = "fees"
    /\ transaction_type = 2
    /\ fee_info' = <<info>>
    /\ priority_fee' = ResolvedPriorityFee(priority_fee, info)
    /\ max_fee' = ResolvedMaxFee(max_fee, priority_fee', info.suggestBaseFee)
    /\ costs' = Costs(gas_limit, max_fee')
    /\ pc' = "profit"
    /\ UNCHANGED <<reporter, bundleVars, batchVars, evmVars, sharedVars, staked_ret, block, result, exc, cycle, cfgVars, legacy_gas_price,
                   last_submission_timestamp, flashbots_ready, rewards, price_eth_usd,
                   price_trb_usd, profit_status, timestamp_count, built_tx, results,
                   ret, condVars, steps, fails>>

\* lines 125-126 when the Etherscan fetch gave (None, None): None.suggestBaseFee
ResolveFeesType2Failed ==
    /\ pc = "fees"
    /\ transaction_type = 2
    /\ Raise("AttributeError")
    /\ fails' = fails \cup {"gas_quote"}
    /\ UNCHANGED <<reporter, bundleVars, batchVars, evmVars, sharedVars, staked_ret, submitVars, cycle, cfgVars, feeVars, last_submission_timestamp,
                   flashbots_ready, localVars, condVars, steps>>

\* lines 156-170; gas_price is what ethgasstation returns if it is asked
ResolveFeesLegacy(gas_price) ==
    /\ pc = "fees"
    /\ transaction_type # 2
    /\ legacy_gas_price' =
          IF legacy_gas_price = None \/ legacy_gas_price = 0
            THEN gas_price ELSE legacy_gas_price
    /\ IF legacy_gas_price' = None
         THEN \* self.gas_limit * None
              /\ Raise("TypeError")
              /\ fails' = fails \cup {"gas_quote"}
              /\ UNCHANGED costs
         ELSE /\ costs' = Costs(gas_limit, legacy_gas_price')
              /\ pc' = "profit"
              /\ UNCHANGED <<exc, fails>>
    /\ UNCHANGED <<reporter, bundleVars, batchVars, evmVars, sharedVars, staked_ret, submitVars, cycle, cfgVars, max_fee, priority_fee,
                   last_submission_timestamp, flashbots_ready, rewards, price_eth_usd,
                   price_trb_usd, profit_status, timestamp_count, built_tx, results,
                   ret, condVars, steps>>

\* line 173: revenue = tb_reward + tips
Revenue(rw) == rw[2] + rw[1]

\* line 174: rev_usd = revenue / 1e18 * price_trb_usd     (units of 10^-5 USD)
RevUsd(revenue, price_trb) == revenue * price_trb

\* line 175: costs_usd = costs / 1e9 * price_eth_usd      (units of 10^-5 USD)
CostsUsd(c, price_eth) == c * price_eth

\* line 179: percent_profit = ((profit_usd) / costs_usd) * 100, costs_usd # 0
PercentProfit(profit_usd, costs_usd) ==
    [num |-> profit_usd * 100, den |-> costs_usd]

\* BelowThreshold with <= in place of <
BelowThresholdOrEqual(percent_profit, e) ==
    /\ e.tag # "str"
    /\ IF percent_profit.den > 0
         THEN percent_profit.num <= e.n * percent_profit.den
         ELSE percent_profit.num >= e.n * percent_profit.den

\* line 182: (self.expected_profit != "YOLO") and (percent_profit < self.expected_profit)
BelowThreshold(percent_profit, e) ==
    /\ ~IsYolo(e)
    /\ IF percent_profit.den > 0
         THEN percent_profit.num < e.n * percent_profit.den
         ELSE percent_profit.num > e.n * percent_profit.den

\* lines 172-188, and lines 211-213 of report_once
CalculateProfit ==
    /\ pc = "profit"
    /\ IF price_trb_usd = None \/ price_eth_usd = None
         THEN \* float * None
              /\ Raise("TypeError")
              /\ UNCHANGED <<profit_status, ret, steps>>
         ELSE LET rev_usd == RevUsd(Revenue(rewards), price_trb_usd)
                  costs_usd == CostsUsd(costs, price_eth_usd)
                  profit_usd == rev_usd - costs_usd
              IN  IF costs_usd = 0
                    THEN \* profit_usd / 0.0
                         /\ Raise("ZeroDivisionError")
                         /\ UNCHANGED <<profit_status, ret, steps>>
                    ELSE IF BelowThreshold(PercentProfit(profit_usd, costs_usd),
                                           expected_profit)
                           THEN /\ profit_status' =
                                     <<[ok |-> FALSE,
                                        error |-> "Estimated profitability below threshold."]>>
                                /\ ret' = Return(None, profit_status'[1])
                                /\ pc' = "sleep"
                                /\ steps' = steps \cup {"calc", "profit_fail"}
                                /\ exc' = exc
                           ELSE /\ profit_status' = <<ResponseStatus>>
                                /\ pc' = "fetch"
                                /\ steps' = steps \cup {"calc", "profit_ok"}
                                /\ UNCHANGED <<exc, ret>>
    /\ UNCHANGED <<reporter, bundleVars, batchVars, evmVars, sharedVars, staked_ret, submitVars, cycle, cfgVars, feeVars, last_submission_timestamp,
                   flashbots_ready, rewards, price_eth_usd, price_trb_usd, costs,
                   timestamp_count, built_tx, results, condVars, fails>>

(***************************************************************************)
(* FlashbotsReporter.report_once, lines 215-332: the submission path       *)
(***************************************************************************)
\* lines 218-222: await self.datafeed.source.fetch_new_datapoint()
FetchDatapoint(got) ==
    /\ pc = "fetch"
    /\ steps' = steps \cup {"fetch"}
    /\ IF got
         THEN /\ pc' = "encode"
              /\ UNCHANGED <<ret, fails>>
         ELSE /\ ret' = Return(None,
                          error_status("Unable to retrieve updated datafeed value."))
              /\ pc' = "sleep"
              /\ fails' = fails \cup {"datafeed"}
    /\ UNCHANGED <<reporter, bundleVars, batchVars, evmVars, sharedVars, staked_ret, submitVars, exc, cycle, cfgVars, feeVars, last_submission_timestamp,
                   flashbots_ready, rewards, price_eth_usd, price_trb_usd, costs,
                   profit_status, timestamp_count, built_tx, results, condVars>>

\* lines 225-232: value = query.value_type.encode(latest_data[0]) in try/except
EncodeValue(encoded) ==
    /\ pc = "encode"
    /\ IF encoded
         THEN /\ pc' = "nonce"
              /\ UNCHANGED <<ret, fails>>
         ELSE /\ ret' = Return(None, error_status("Error encoding response value"))
              /\ pc' = "sleep"
              /\ fails' = fails \cup {"encode"}
    /\ UNCHANGED <<reporter, bundleVars, batchVars, evmVars, sharedVars, staked_ret, submitVars, exc, cycle, cfgVars, feeVars, last_submission_timestamp,
                   flashbots_ready, rewards, price_eth_usd, price_trb_usd, costs,
                   profit_status, timestamp_count, built_tx, results, condVars, steps>>

\* lines 239-244: status is the ResponseStatus() of line 215; only error is set
NonceReadFailedStatus ==
    [ResponseStatus EXCEPT !.error = "Unable to retrieve timestampCount: "]

\* lines 235-244: timestamp_count, read_status = await self.oracle.read(...)
ReadTimestampCount(read_ok, count) ==
    /\ pc = "nonce"
    /\ steps' = steps \cup {"nonce"}
    /\ IF read_ok
         THEN /\ timestamp_count' = count
              /\ pc' = "build"
              /\ UNCHANGED <<ret, fails>>
         ELSE /\ ret' = Return(None, NonceReadFailedStatus)
              /\ pc' = "sleep"
              /\ fails' = fails \cup {"nonce"}
              /\ UNCHANGED timestamp_count
    /\ UNCHANGED <<reporter, bundleVars, batchVars, evmVars, sharedVars, staked_ret, submitVars, exc, cycle, cfgVars, feeVars, last_submission_timestamp,
                   flashbots_ready, rewards, price_eth_usd, price_trb_usd, costs,
                   profit_status, built_tx, results, condVars>>

\* Web3.toWei(number, "gwei"): number * 10^9, held as mantissa and exponent
toWei(number) == [m |-> number, e |-> 9]

\* TxParams with the legacy gasPrice added to every transaction
TxParamsWithGasPrice(tt, acc_nonce, gl, mf, pf, lgp) ==
    IF tt = 2
      THEN [nonce |-> acc_nonce, gas |-> gl,
            gasPrice |-> toWei(lgp),
            maxFeePerGas |-> toWei(mf),
            maxPriorityFeePerGas |-> toWei(pf),
            chainId |-> "chain_id"]
      ELSE [nonce |-> acc_nonce, gas |-> gl,
            gasPrice |-> toWei(lgp),
            chainId |-> "chain_id"]

\* lines 257-284: the dict given to buildTransaction
TxParams(tt, acc_nonce, gl, mf, pf, lgp) ==
    IF tt = 2
      THEN [nonce |-> acc_nonce, gas |-> gl,
            maxFeePerGas |-> toWei(mf),
            maxPriorityFeePerGas |-> toWei(pf),
            chainId |-> "chain_id"]
      ELSE [nonce |-> acc_nonce, gas |-> gl,
            gasPrice |-> toWei(lgp),
            chainId |-> "chain_id"]

\* lines 247-288: build submitValue(_nonce=timestamp_count), read the account
\* transaction count, add the fee fields, sign; toWei(None) raises TypeError
BuildAndSign(acc_nonce) ==
    /\ pc = "build"
    /\ IF \/ transaction_type = 2 /\ (max_fee = None \/ priority_fee = None)
          \/ transaction_type # 2 /\ legacy_gas_price = None
         THEN /\ Raise("TypeError")
              /\ UNCHANGED <<built_tx, steps, signed_count>>
         ELSE /\ built_tx' = <<[func |-> "submitValue",
                                _nonce |-> timestamp_count,
                                params |-> TxParams(transaction_type, acc_nonce,
                                                    gas_limit, max_fee, priority_fee,
                                                    legacy_gas_price)]>>
              /\ signed_count' = signed_count + 1
              /\ steps' = steps \cup {"sign"}
              /\ pc' = "send"
              /\ exc' = exc
    /\ UNCHANGED <<reporter, bundles, batchVars, evmVars, sharedVars, staked_ret, submitVars, cycle, cfgVars, feeVars, last_submission_timestamp,
                   flashbots_ready, rewards, price_eth_usd, price_trb_usd, costs,
                   profit_status, timestamp_count, results, ret, condVars, fails>>

\* lines 291-293: a bundle of the one signed transaction
Bundle(signed_transaction) == <<[signed_transaction |-> signed_transaction]>>

\* SendBundle with the transaction signed again for each target block, its
\* account transaction count being the target block
SendBundleResigned(bundle, target_block) ==
    [bundle |-> <<[signed_transaction |->
                      [bundle[1].signed_transaction
                          EXCEPT !.params.nonce = target_block]]>>,
     target_block_number |-> target_block]

\* lines 301-303: send_bundle(bundle, target_block_number=target_block)
SendBundle(bundle, target_block) ==
    [bundle |-> bundle, target_block_number |-> target_block]

\* line 299: [block + k for k in [1, 2, 3, 4, 5]]
TargetBlocks(b) == [k \in 1..5 |-> b + k]

\* LastResult keeping the first result instead of the last
FirstResult(rs) == rs[1]

\* line 305: result = results[-1]
LastResult(rs) == rs[Len(rs)]

\* lines 296-305: send the bundle once per target block, keep the last result
SendBundles(block_number) ==
    /\ pc = "send"
    /\ block' = block_number
    /\ results' = TargetBlocks(block_number)
    /\ result' = LastResult(results')
    /\ bundles' = [k \in 1..5 |-> SendBundle(Bundle(built_tx[1]), results'[k])]
    /\ steps' = steps \cup {"send"}
    /\ pc' = "wait"
    /\ UNCHANGED <<reporter, signed_count, batchVars, evmVars, sharedVars, staked_ret, fee_info, exc, cycle, cfgVars, feeVars, last_submission_timestamp,
                   flashbots_ready, rewards, price_eth_usd, price_trb_usd, costs,
                   profit_status, timestamp_count, built_tx, ret, condVars, fails>>

\* line 301: the k-th send_bundle raises (the relay request failed)
SendBundlesFailed(block_number, k) ==
    /\ pc = "send"
    /\ block' = block_number
    /\ results' = SubSeq(TargetBlocks(block_number), 1, k - 1)
    /\ bundles' = [n \in 1..(k - 1) |-> SendBundle(Bundle(built_tx[1]), results'[n])]
    /\ Raise("Exception")
    /\ steps' = steps \cup {"send"}
    /\ fails' = fails \cup {"send"}
    /\ UNCHANGED <<reporter, signed_count, batchVars, evmVars, sharedVars, staked_ret, fee_info, result, cycle, cfgVars, feeVars,
                   last_submission_timestamp, flashbots_ready, rewards, price_eth_usd,
                   price_trb_usd, costs, profit_status, timestamp_count, built_tx, ret,
                   condVars>>

\* line 312: result.wait() on results[-1]
WaitBundle ==
    /\ pc = "wait"
    /\ pc' = "receipt"
    /\ UNCHANGED <<reporter, bundleVars, batchVars, evmVars, sharedVars, staked_ret, submitVars, exc, cycle, cfgVars, feeVars, last_submission_timestamp,
                   flashbots_ready, localVars, condVars, steps, fails>>

\* lines 316-320: status is the ResponseStatus() of line 215; only error is set
NotExecutedStatus ==
    [ResponseStatus EXCEPT !.error = "Bundle was not executed: "]

\* ResetSubmissionTimestamp leaving the timestamp as it is
KeptSubmissionTimestamp(lst) == lst

\* line 325: self.last_submission_timestamp = 0
ResetSubmissionTimestamp(lst) == 0

\* lines 313-332: tx_receipt = result.receipts()[0]; the transaction was mined
\* in target block results[i], or was not found
Receipts(found, i) ==
    /\ pc = "receipt"
    /\ IF found
         THEN LET status == ResponseStatus
              IN  /\ IF status.ok /\ status.error = NoError
                       THEN last_submission_timestamp' =
                                ResetSubmissionTimestamp(last_submission_timestamp)
                       ELSE UNCHANGED last_submission_timestamp
                  /\ ret' = Return(results[i], status)
                  /\ steps' = steps \cup {"receipt"}
                  /\ fails' = fails
         ELSE /\ ret' = Return(None, NotExecutedStatus)
              /\ fails' = fails \cup {"receipt"}
              /\ UNCHANGED <<last_submission_timestamp, steps>>
    /\ pc' = "sleep"
    /\ UNCHANGED <<reporter, bundleVars, batchVars, evmVars, sharedVars, staked_ret, submitVars, exc, cycle, cfgVars, feeVars, flashbots_ready, rewards,
                   price_eth_usd, price_trb_usd, costs, profit_status,
                   timestamp_count, built_tx, results, condVars>>

(***************************************************************************)
(* ConditionalReporter, conditional_reporter.py                            *)
(***************************************************************************)
\* GetDataBefore(*data), lines 14-18
GetDataBefore(retrieved, value, timestampRetrieved) ==
    [retrieved |-> retrieved, value |-> value,
     timestampRetrieved |-> timestampRetrieved]

\* what the getDataBefore read can return
TellorReads ==
    {GetDataBefore(r, "value", t) : r \in BOOLEAN, t \in TimestampsRetrieved}

\* get_tellor_latest_data, lines 37-50: <<>> is None
get_tellor_latest_data(df, read_ok, data) ==
    IF df = "None"
      THEN <<>>
      ELSE IF ~read_ok THEN <<>> ELSE <<data>>

\* conditions_met, lines 101-116, after the datafeed check: td is tellor_data
\* line 103 reads tellor_data.value before tellor_data is compared with None
ConditionsMetResult(td, time, timeout) ==
    LET time_passed_since_tellor_report ==
            IF td # <<>> THEN time - td[1].timestampRetrieved ELSE time
    IN  IF td = <<>>
          THEN "raised"
          ELSE IF ~td[1].retrieved
                 THEN "true"
                 ELSE IF time_passed_since_tellor_report > timeout
                        THEN "true"
                        ELSE "false"

\* report, line 126: while report_count is None or report_count > 0
CLoop ==
    /\ pc = "c_loop"
    /\ IF report_count = None \/ report_count > 0
         THEN /\ cycle < MaxCycles
              /\ cycle' = cycle + 1
              /\ pc' = "c_online"
         ELSE /\ pc' = "c_done"
              /\ cycle' = cycle
    /\ steps' = {}
    /\ fails' = {}
    /\ cond_ret' = "none"
    /\ tellor_data' = <<>>
    /\ UNCHANGED <<reporter, bundleVars, batchVars, evmVars, sharedVars, staked_ret, submitVars, exc, cfgVars, feeVars, last_submission_timestamp,
                   flashbots_ready, localVars, datafeed, stale_timeout, report_count,
                   now>>

\* report, lines 127-136: is_online() and has_native_token()
COnline(online, native) ==
    /\ pc = "c_online"
    /\ IF online
         THEN IF native
                THEN /\ pc' = "c_cond"
                     /\ fails' = fails
                ELSE /\ pc' = "c_sleep"
                     /\ fails' = fails \cup {"native_token"}
         ELSE /\ pc' = "c_sleep"
              /\ fails' = fails \cup {"online"}
    /\ UNCHANGED <<reporter, bundleVars, batchVars, evmVars, sharedVars, staked_ret, submitVars, exc, cycle, cfgVars, feeVars, last_submission_timestamp,
                   flashbots_ready, localVars, condVars, steps>>

\* conditions_met, lines 90-116, and report, lines 130-133
CConditionsMet(read_ok, data, time) ==
    /\ pc = "c_cond"
    /\ now' = time
    /\ IF datafeed = "None"
         THEN /\ cond_ret' = "false"
              /\ tellor_data' = tellor_data
              /\ fails' = fails
         ELSE /\ tellor_data' = get_tellor_latest_data(datafeed, read_ok, data)
              /\ cond_ret' = ConditionsMetResult(tellor_data', time, stale_timeout)
              /\ fails' = fails \cup (IF read_ok THEN {} ELSE {"oracle_read"})
    /\ IF cond_ret' = "raised"
         THEN /\ Raise("AttributeError")
              /\ steps' = steps
         ELSE IF cond_ret' = "true"
                THEN /\ pc' = "c_report_once"
                     /\ steps' = steps \cup {"cond_true"}
                     /\ exc' = exc
                ELSE /\ pc' = "c_sleep"
                     /\ steps' = steps \cup {"cond_false"}
                     /\ exc' = exc
    /\ UNCHANGED <<reporter, bundleVars, batchVars, evmVars, sharedVars, staked_ret, submitVars, cycle, cfgVars, feeVars, last_submission_timestamp,
                   flashbots_ready, localVars, datafeed, stale_timeout, report_count>>

\* report, line 131: _, _ = await self.report_once()  (Tellor360Reporter)
CReportOnce ==
    /\ pc = "c_report_once"
    /\ steps' = steps \cup {"report_once"}
    /\ pc' = "c_sleep"
    /\ UNCHANGED <<reporter, bundleVars, batchVars, evmVars, sharedVars, staked_ret, submitVars, exc, cycle, cfgVars, feeVars, last_submission_timestamp,
                   flashbots_ready, localVars, condVars, fails>>

\* report, lines 138-142: sleep, then count the cycle
CSleep ==
    /\ pc = "c_sleep"
    /\ report_count' = IF report_count # None THEN report_count - 1 ELSE report_count
    /\ pc' = "c_loop"
    /\ UNCHANGED <<reporter, bundleVars, batchVars, evmVars, sharedVars, staked_ret, submitVars, exc, cycle, cfgVars, feeVars, last_submission_timestamp,
                   flashbots_ready, localVars, datafeed, stale_timeout, cond_ret,
                   tellor_data, now, steps, fails>>

Next ==
    \/ \E staked \in BOOLEAN, ok \in BOOLEAN : EnsureStaked(staked, ok)
    \/ SetupFlashbots
    \/ ReportLoop
    \/ \E ok \in BOOLEAN : CheckReporterLock(ok)
    \/ \E rw \in TipValues \X RewardValues : ReadCurrentReward(ResponseStatus, rw)
    \/ \E rs \in {ResponseStatus, error_status("read failed")} :
          ReadCurrentReward(rs, <<>>)
    \/ \E pe \in EthPrices, pt \in TrbPrices : FetchPrices(pe, pt)
    \/ \E info \in FeeInfos : ResolveFeesType2(info)
    \/ ResolveFeesType2Failed
    \/ \E gas_price \in GasPrices : ResolveFeesLegacy(gas_price)
    \/ CalculateProfit
    \/ \E got \in BOOLEAN : FetchDatapoint(got)
    \/ \E encoded \in BOOLEAN : EncodeValue(encoded)
    \/ \E read_ok \in BOOLEAN, count \in TimestampCounts :
          ReadTimestampCount(read_ok, count)
    \/ \E acc_nonce \in AccountNonces : BuildAndSign(acc_nonce)
    \/ \E block_number \in BlockNumbers : SendBundles(block_number)
    \/ \E block_number \in BlockNumbers, k \in 1..5 : SendBundlesFailed(block_number, k)
    \/ WaitBundle
    \/ \E found \in BOOLEAN, i \in 1..5 : Receipts(found, i)
    \/ Sleep
    \/ CLoop
    \/ \E online \in BOOLEAN, native \in BOOLEAN : COnline(online, native)
    \/ \E read_ok \in BOOLEAN, data \in TellorReads, time \in Times :
          CConditionsMet(read_ok, data, time)
    \/ CReportOnce
    \/ CSleep

Spec == Init /\ [][Next]_vars

(***************************************************************************)
(* Claims                                                                  *)
(***************************************************************************)
\* ensure_profitable reached its profit calculation with both prices present
ProfitCalcEntered ==
    /\ reporter = "flashbots"
    /\ costs # None
    /\ pc # "profit"
    /\ price_eth_usd # None
    /\ price_trb_usd # None

\* the sub-steps of the submission path of report_once
SubmissionSteps == {"fetch", "nonce", "sign", "send"}

\* C1: in both reporter loops a cycle in which exactly one sub-step failed
\* does not end the loop with an unhandled exception (it reaches the sleep).
C1_SingleFailureReachesSleep ==
    pc = "crashed" => Cardinality(fails) # 1

\* C2: conditions_met, called with a datafeed set, returns true when there is
\* no prior record (None), when retrieved is false or when
\* now - timestampRetrieved > stale_timeout, and false otherwise.
C2_ConditionsMetTruthTable ==
    (reporter = "conditional" /\ datafeed = "feed" /\ cond_ret # "none")
      => cond_ret =
           IF tellor_data = <<>>
             THEN "true"
             ELSE IF ~tellor_data[1].retrieved
                    THEN "true"
                    ELSE IF now - tellor_data[1].timestampRetrieved > stale_timeout
                           THEN "true"
                           ELSE "false"

\* C3: with expected_profit "YOLO" and the rewards read, price fetches and fee
\* resolution all succeeding, ensure_profitable returns a status with ok true,
\* also when the cost is zero or the profit negative.
C3_YoloAlwaysOk ==
    (ProfitCalcEntered /\ IsYolo(expected_profit))
      => (profit_status # <<>> /\ profit_status[1].ok)

\* C4: with a numeric expected_profit and all reads succeeding, the status
\* ensure_profitable returns has ok true iff percentProfit >= expected_profit,
\* with costs = gas_limit * max_fee (type 2) or gas_limit * legacy_gas_price,
\* revenue = reward + tips and percentProfit = (revUsd - costsUsd) / costsUsd * 100;
\* gasLimit 350000, legacyGasPrice 50, tips 0, reward 1e18, TRB 1 USD, ETH 2000 USD
\* is rejected for every positive threshold.
C4_ProfitDecision ==
    ("calc" \in steps /\ ~IsYolo(expected_profit))
      => LET fee == IF transaction_type = 2 THEN max_fee ELSE legacy_gas_price
             costsUsd == gas_limit * fee * price_eth_usd
             revenueUsd == (rewards[1] + rewards[2]) * price_trb_usd
         IN  /\ profit_status # <<>>
             /\ costsUsd > 0
             /\ profit_status[1].ok
                  <=> (revenueUsd - costsUsd) * 100 >= expected_profit.n * costsUsd
             /\ ( /\ transaction_type # 2
                  /\ gas_limit = 35
                  /\ legacy_gas_price = 50
                  /\ rewards = <<0, 100000>>
                  /\ price_trb_usd = 1
                  /\ price_eth_usd = 2000
                  /\ expected_profit.n > 0 ) => ~profit_status[1].ok

\* C4 witness: percentProfit equals the threshold of 100 and the status is ok
C4_Witness ==
    /\ "calc" \in steps
    /\ expected_profit = Num(100)
    /\ (rewards[1] + rewards[2]) * price_trb_usd = 2 * costs * price_eth_usd
    /\ costs > 0
    /\ profit_status[1].ok

\* C5: when costsUsd is zero ensure_profitable does not fail with a division
\* by zero: it returns a status and the cycle goes on.
C5_ZeroCostNoCrash ==
    (ProfitCalcEntered /\ costs * price_eth_usd = 0)
      => (exc # "ZeroDivisionError" /\ profit_status # <<>> /\ pc # "crashed")

\* C6 as stated: after fee resolution the reporter's fee state has exactly one
\* fee-field set populated, the one matching transaction_type.
C6_ExactlyOneFeeSet ==
    (reporter = "flashbots" /\ costs # None)
      => IF transaction_type = 2
           THEN priority_fee # None /\ max_fee # None /\ legacy_gas_price = None
           ELSE legacy_gas_price # None /\ priority_fee = None /\ max_fee = None

\* C6 amended: after fee resolution the fee fields matching transaction_type
\* are populated, and the transaction is built with exactly that set: gasPrice
\* alone for legacy, maxFeePerGas and maxPriorityFeePerGas for type 2.
C6_TxFeeFieldsMatchType ==
    /\ (reporter = "flashbots" /\ costs # None)
         => IF transaction_type = 2
              THEN priority_fee # None /\ max_fee # None
              ELSE legacy_gas_price # None
    /\ built_tx # <<>>
         => LET p == built_tx[1].params
                fields == DOMAIN p \cap {"gasPrice", "maxFeePerGas", "maxPriorityFeePerGas"}
            IN  IF transaction_type = 2
                  THEN /\ fields = {"maxFeePerGas", "maxPriorityFeePerGas"}
                       /\ p.maxFeePerGas = toWei(max_fee)
                       /\ p.maxPriorityFeePerGas = toWei(priority_fee)
                  ELSE /\ fields = {"gasPrice"}
                       /\ p.gasPrice = toWei(legacy_gas_price)

\* C6 witness: a type 2 transaction was built while legacy_gas_price is set too
C6_Witness ==
    /\ built_tx # <<>>
    /\ transaction_type = 2
    /\ legacy_gas_price # None

\* C7: when the receipt lookup fails after the wait, report_once returns no
\* receipt with a failed status (ok false) carrying the bundle-not-executed
\* error, and the bundle is not sent again in the cycle.
C7_NotFoundReturnsFailed ==
    "receipt" \in fails
      => /\ ret # <<>>
         /\ ret[1].receipt = None
         /\ ~ret[1].status.ok
         /\ ret[1].status.error = "Bundle was not executed: "
         /\ Len(results) = 5

\* C8: every status returned by ensure_profitable and by report_once has
\* ok true only with error null.
C8_OkImpliesNoError ==
    /\ profit_status # <<>>
         => (profit_status[1].ok => profit_status[1].error = NoError)
    /\ ret # <<>>
         => (ret[1].status.ok => ret[1].status.error = NoError)

\* C9: a cycle enters the submission path (datafeed fetch, nonce read, sign,
\* send) only after the lock check and the profitability check returned ok in
\* that cycle, and ConditionalReporter.report calls report_once only after
\* conditions_met returned true; a cycle in which a gate failed is at its
\* sleep (or past it) and has done nothing of the submission path.
C9_GatesBeforeSubmission ==
    /\ steps \cap SubmissionSteps # {} => {"lock_ok", "profit_ok"} \subseteq steps
    /\ "profit_ok" \in steps => "lock_ok" \in steps
    /\ "report_once" \in steps => "cond_true" \in steps
    /\ steps \cap {"lock_fail", "profit_fail"} # {}
         => /\ pc \in {"sleep", "report"}
            /\ steps \cap SubmissionSteps = {}
            /\ built_tx = <<>> /\ results = <<>> /\ timestamp_count = None
    /\ "cond_false" \in steps
         => /\ pc \in {"c_sleep", "c_loop", "c_done"}
            /\ "report_once" \notin steps

\* C9 witness: the bundles were sent in a cycle whose two gates returned ok
C9_Witness ==
    /\ "send" \in steps
    /\ Len(results) = 5
    /\ {"lock_ok", "profit_ok"} \subseteq steps

\* C10: if ensure_staked reports not staked, or a status that is not ok, the
\* constructor aborts: no relay setup, no cycle and no bundle ever happens.
C10_UnstakedAborts ==
    (staked_ret # <<>> /\ ~(staked_ret[1] /\ staked_ret[2]))
      => /\ pc = "init_aborted"
         /\ ~flashbots_ready
         /\ cycle = 0
         /\ results = <<>>
         /\ ret = <<>>

\* C10 witness: ensure_staked returned staked with a failed status
C10_Witness ==
    /\ staked_ret = <<TRUE, FALSE>>
    /\ pc = "init_aborted"

\* C11: when the getCurrentReward read fails, or succeeds with null rewards,
\* ensure_profitable returns a failed status without fetching prices or fees,
\* and nothing is submitted in that cycle.
C11_RewardReadFailureReturnsFailed ==
    "rewards" \in fails
      => /\ profit_status # <<>>
         /\ ~profit_status[1].ok
         /\ profit_status[1].error = "Unable to retrieve queryID's current rewards:"
         /\ price_eth_usd = None /\ price_trb_usd = None /\ costs = None
         /\ steps \cap SubmissionSteps = {}

\* C12: if either USD price is missing after the two fetches completed,
\* ensure_profitable returns a failed status, and nothing is submitted.
C12_MissingPriceReturnsFailed ==
    (fails \cap {"price_eth", "price_trb"} # {} /\ pc \notin {"fees", "profit"})
      => /\ profit_status # <<>>
         /\ ~profit_status[1].ok
         /\ steps \cap SubmissionSteps = {}

\* C13: when the gas-price source fails or returns no value, fee resolution
\* yields a failed result (ensure_profitable returns a failed status), and no
\* transaction is built, signed or sent with a null fee field.
C13_GasQuoteFailureReturnsFailed ==
    "gas_quote" \in fails
      => /\ pc # "crashed"
         /\ profit_status # <<>>
         /\ ~profit_status[1].ok
         /\ built_tx = <<>> /\ results = <<>>

\* C19: when the getTimestampCountById read fails, report_once returns no
\* receipt and a failed status (ok false) naming the nonce read, and nothing
\* is built, signed or sent; when it succeeds, the submitted transaction
\* carries the timestamp count read in that cycle as its oracle nonce.
C19_NonceReadFailureReturnsFailed ==
    /\ "nonce" \in fails
         => /\ ret # <<>>
            /\ ret[1].receipt = None
            /\ ~ret[1].status.ok
            /\ ret[1].status.error = "Unable to retrieve timestampCount: "
            /\ built_tx = <<>> /\ results = <<>>
            /\ steps \cap {"sign", "send"} = {}
    /\ built_tx # <<>>
         => /\ timestamp_count # None
            /\ built_tx[1]._nonce = timestamp_count

C17_FiveBundlesLastAwaited ==
    /\ "send" \in steps /\ pc # "crashed"
         => /\ Len(results) = 5
            /\ \A k \in 1..5 : results[k] = block + k
            /\ result = block + 5
    /\ pc \in {"wait", "receipt"} => result = block + 5
    /\ results = <<>> => result = None

\* C17 witness: the five bundles are sent and the reporter waits
C17_Witness ==
    /\ pc = "wait"
    /\ block = 100
    /\ results = <<101, 102, 103, 104, 105>>
    /\ result = 105

\* C18: when the receipt of the awaited bundle is found, report_once sets
\* last_submission_timestamp to 0 and returns that receipt with an ok status;
\* no other step of report_once resets last_submission_timestamp.
C18_ResetOnlyOnReceipt ==
    /\ []( "receipt" \in steps
             => /\ last_submission_timestamp = 0
                /\ ret # <<>>
                /\ \E k \in 1..Len(results) : ret[1].receipt = results[k]
                /\ ret[1].status.ok
                /\ ret[1].status.error = NoError )
    /\ [][ (last_submission_timestamp # 0 /\ last_submission_timestamp' = 0)
             => (pc = "receipt" /\ "receipt" \in steps') ]_vars

\* C18 witness: the receipt was found in the third target block
C18_Witness ==
    /\ "receipt" \in steps
    /\ pc = "sleep"
    /\ block = 100
    /\ ret[1].receipt = 103
    /\ last_submission_timestamp = 0

(***************************************************************************)
(* Progress of a cycle.  Every step of the coroutine is taken once it is   *)
(* enabled, except the return of result.wait() (line 312): the call has no *)
(* timeout and returns only when the relay's target block is reached.      *)
(***************************************************************************)
NextNoWait == Next /\ pc # "wait"

SpecLive == Init /\ [][Next]_vars /\ WF_vars(NextNoWait)

\* C20: a cycle that has sent its bundles and waits for the awaited one
\* eventually reaches the sleep step, also when the relay never completes
\* the bundle (the wait is bounded by a timeout).
C20_SubmittingReachesSleep ==
    (pc = "wait") ~> (pc = "sleep")

(***************************************************************************)
(* Several FlashbotsReporter.report loops as tasks of one event loop,      *)
(* sharing one account.  A task runs from one await to the next without    *)
(* interruption.  The awaits of report_once are the lock check (207), the  *)
(* profitability check (211), the datafeed fetch (218) and the reads of    *)
(* the timestamp count (235); lines 246-332 hold no await, and              *)
(* result.wait() (312) is a plain call that blocks the event loop.         *)
(***************************************************************************)
singleVars == <<reporter, pc, exc, cycle, cfgVars, feeVars, last_submission_timestamp,
                staked_ret, flashbots_ready, localVars, submitVars, bundleVars,
                condVars, steps, fails>>

\* no single reporter runs: its attributes are the defaults of __init__ and
\* its coroutine is at the position named
ReporterOff(name) ==
    /\ reporter = name
    /\ pc = name
    /\ transaction_type = 0
    /\ gas_limit = 35
    /\ expected_profit = YOLO
    /\ max_fee = None
    /\ priority_fee = None
    /\ legacy_gas_price = 50
    /\ datafeed = "feed"
    /\ stale_timeout = None
    /\ report_count = None
    /\ exc = NoExc
    /\ cycle = 0
    /\ last_submission_timestamp = 0
    /\ staked_ret = <<TRUE, TRUE>>
    /\ flashbots_ready = TRUE
    /\ rewards = <<>>
    /\ price_eth_usd = None
    /\ price_trb_usd = None
    /\ costs = None
    /\ profit_status = <<>>
    /\ timestamp_count = None
    /\ built_tx = <<>>
    /\ results = <<>>
    /\ ret = <<>>
    /\ fee_info = <<>>
    /\ block = None
    /\ result = None
    /\ signed_count = 0
    /\ bundles = <<>>
    /\ cond_ret = "none"
    /\ tellor_data = <<>>
    /\ now = 0
    /\ steps = {}
    /\ fails = {}

InitShared ==
    /\ ReporterOff("shared")
    /\ EVMOff
    /\ BatchOff
    /\ lpc = [i \in Loops |-> "report"]
    /\ lcycle = [i \in Loops |-> 0]
    /\ chain_count \in AccountNonces
    /\ pending = [i \in Loops |-> None]

\* EventLoopFree with result.wait() awaited: other tasks run during the wait
EventLoopFreeAlways(i) == TRUE

\* task i can be resumed: no other task is inside the blocking result.wait()
\* of line 312, which it entered without an await after line 235
EventLoopFree(i) == \A k \in Loops \ {i} : lpc[k] # "wait"

\* report, line 338, and report_once, lines 207-232: the gates, the datafeed
\* fetch and the encoding; the task is then suspended in the read of line 235
LGates(i, pass) ==
    /\ lpc[i] = "report"
    /\ EventLoopFree(i)
    /\ lcycle[i] < MaxSharedCycles
    /\ lcycle' = [lcycle EXCEPT ![i] = @ + 1]
    /\ lpc' = [lpc EXCEPT ![i] = IF pass THEN "nonce" ELSE "sleep"]
    /\ UNCHANGED <<chain_count, pending, batchVars, evmVars, singleVars>>

\* report_once, lines 235-305: the read of the timestamp count returns, then
\* the account transaction count is read (254), the transaction is signed
\* (286) and the bundles are sent (299-304)
LSubmit(i, read_ok) ==
    /\ lpc[i] = "nonce"
    /\ EventLoopFree(i)
    /\ IF read_ok
         THEN /\ pending' = [pending EXCEPT ![i] = chain_count]
              /\ lpc' = [lpc EXCEPT ![i] = "wait"]
         ELSE /\ pending' = pending
              /\ lpc' = [lpc EXCEPT ![i] = "sleep"]
    /\ UNCHANGED <<lcycle, chain_count, batchVars, evmVars, singleVars>>

\* report_once, lines 312-332: result.wait() returns at the last target block;
\* the transaction was mined (found) or its bundles have expired
LWait(i, found) ==
    /\ lpc[i] = "wait"
    /\ chain_count' = IF found THEN chain_count + 1 ELSE chain_count
    /\ pending' = [pending EXCEPT ![i] = None]
    /\ lpc' = [lpc EXCEPT ![i] = "sleep"]
    /\ UNCHANGED <<lcycle, batchVars, evmVars, singleVars>>

\* report, line 339: await asyncio.sleep(7)
LSleep(i) ==
    /\ lpc[i] = "sleep"
    /\ EventLoopFree(i)
    /\ lpc' = [lpc EXCEPT ![i] = "report"]
    /\ UNCHANGED <<lcycle, chain_count, pending, batchVars, evmVars, singleVars>>

NextShared ==
    \/ \E i \in Loops, pass \in BOOLEAN : LGates(i, pass)
    \/ \E i \in Loops, read_ok \in BOOLEAN : LSubmit(i, read_ok)
    \/ \E i \in Loops, found \in BOOLEAN : LWait(i, found)
    \/ \E i \in Loops : LSleep(i)

SpecShared == InitShared /\ [][NextShared]_vars

WordLen == 32
AddressLen == 20

\* "EVMCall" as UTF-8
EVMCallName == <<69, 86, 77, 67, 97, 108, 108>>

\* the query types get_query_from_data can rebuild
Registry == {EVMCallName}

\* contractAddress of the test, lines 11 and 43
TrbAddress ==
    <<136, 223, 89, 47, 142, 181, 215, 189, 56, 191,
      239, 125, 235, 15, 188, 2, 207, 55, 120, 160>>
DaiAddress ==
    <<107, 23, 84, 116, 232, 144, 148, 196, 77, 169,
      139, 149, 78, 237, 234, 196, 149, 39, 29, 15>>

\* an address string is its 20 bytes and the case of its hex digits
Addresses ==
    [bytes : {TrbAddress, DaiAddress}, form : {"checksum", "lower"}]

\* calldata of the test, lines 12 and 44-47
TotalSupplyCalldata == <<24, 22, 13, 221>>
TransferCalldata ==
    <<169, 5, 156, 187, 0, 0, 0, 0, 0, 0, 0, 0, 0, 0, 0, 0,
      63, 80, 71, 189, 182, 71, 220, 57, 200, 134, 37, 225, 123, 219, 255, 238,
      144, 90, 159, 68, 0, 0, 0, 0, 0, 0, 0, 0, 0, 0, 0, 0,
      0, 0, 0, 0, 0, 0, 0, 0, 0, 0, 1, 28, 154, 98, 208, 78,
      208, 200, 0, 0>>

Calldatas ==
    {<<>>, TotalSupplyCalldata, SubSeq(TransferCalldata, 1, 32),
     SubSeq(TransferCalldata, 1, 33), TransferCalldata}

ChainIds == {1, 5, 137, 80001}

\* EVMCall(chainId=..., contractAddress=..., calldata=...)
EVMCalls ==
    [type : {EVMCallName}, chainId : ChainIds, contractAddress : Addresses,
     calldata : Calldatas]

Zeros(n) == [i \in 1..n |-> 0]

\* number as len bytes, big-endian
RECURSIVE BigEndian(_, _)
BigEndian(n, len) ==
    IF len = 0 THEN <<>> ELSE Append(BigEndian(n \div 256, len - 1), n % 256)

\* big-endian bytes as a number
RECURSIVE FromBigEndian(_)
FromBigEndian(bs) ==
    IF bs = <<>> THEN 0
    ELSE FromBigEndian(SubSeq(bs, 1, Len(bs) - 1)) * 256 + bs[Len(bs)]

\* uint256
Word(n) == BigEndian(n, WordLen)

\* bytes padded with zeros on the right to whole words
PadRight(bs) == bs \o Zeros((WordLen - (Len(bs) % WordLen)) % WordLen)

\* dynamic bytes or string: the length, then the padded bytes
EncodeBytes(bs) == Word(Len(bs)) \o PadRight(bs)

\* address: the 20 bytes padded on the left, whatever the case of the string
EncodeAddress(a) == Zeros(WordLen - AddressLen) \o a.bytes

\* encode_abi(["uint256", "address", "bytes"], [chainId, contractAddress, calldata])
EncodeParams(query) ==
    Word(query.chainId) \o EncodeAddress(query.contractAddress)
        \o Word(3 * WordLen) \o EncodeBytes(query.calldata)

\* query_data: encode_abi(["string", "bytes"], [type, encoded parameters])
QueryData(query) ==
    LET name == EncodeBytes(query.type)
    IN  Word(2 * WordLen) \o Word(2 * WordLen + Len(name)) \o name
            \o EncodeBytes(EncodeParams(query))

\* query_id: keccak of the query data, a function of the query data alone
QueryId(data) == <<"keccak", data>>

\* the word of data that starts at offset off
WordAt(data, off) == FromBigEndian(SubSeq(data, off + 1, off + WordLen))

\* DecodeBytesAt taking the length word for the first word of the bytes
DecodeBytesAtNoLength(data, off) ==
    SubSeq(data, off + 1, off + WordAt(data, off))

\* the dynamic bytes of data that start at offset off
DecodeBytesAt(data, off) ==
    SubSeq(data, off + WordLen + 1, off + WordLen + WordAt(data, off))

\* decode_abi gives an address as a lower-case string
DecodeAddress(word) ==
    [bytes |-> SubSeq(word, WordLen - AddressLen + 1, WordLen), form |-> "lower"]

\* decode_abi(["uint256", "address", "bytes"], encoded parameters)
DecodeParams(bs) ==
    [chainId |-> WordAt(bs, 0),
     contractAddress |-> DecodeAddress(SubSeq(bs, WordLen + 1, 2 * WordLen)),
     calldata |-> DecodeBytesAt(bs, WordAt(bs, 2 * WordLen))]

\* EVMCall.get_query_from_data: the type and the parameters are decoded, the
\* class is looked up by the type and built from the parameters
get_query_from_data(data) ==
    LET query_type == DecodeBytesAt(data, WordAt(data, 0))
        params == DecodeParams(DecodeBytesAt(data, WordAt(data, WordLen)))
    IN  IF query_type \in Registry
          THEN <<[type |-> query_type, chainId |-> params.chainId,
                  contractAddress |-> params.contractAddress,
                  calldata |-> params.calldata]>>
          ELSE <<>>

\* expected_query_data of the test, lines 16-27
ExpectedQueryData ==
    <<0, 0, 0, 0, 0, 0, 0, 0, 0, 0, 0, 0, 0, 0, 0, 0,
      0, 0, 0, 0, 0, 0, 0, 0, 0, 0, 0, 0, 0, 0, 0, 64,
      0, 0, 0, 0, 0, 0, 0, 0, 0, 0, 0, 0, 0, 0, 0, 0,
      0, 0, 0, 0, 0, 0, 0, 0, 0, 0, 0, 0, 0, 0, 0, 128,
      0, 0, 0, 0, 0, 0, 0, 0, 0, 0, 0, 0, 0, 0, 0, 0,
      0, 0, 0, 0, 0, 0, 0, 0, 0, 0, 0, 0, 0, 0, 0, 7,
      69, 86, 77, 67, 97, 108, 108, 0, 0, 0, 0, 0, 0, 0, 0, 0,
      0, 0, 0, 0, 0, 0, 0, 0, 0, 0, 0, 0, 0, 0, 0, 0,
      0, 0, 0, 0, 0, 0, 0, 0, 0, 0, 0, 0, 0, 0, 0, 0,
      0, 0, 0, 0, 0, 0, 0, 0, 0, 0, 0, 0, 0, 0, 0, 160,
      0, 0, 0, 0, 0, 0, 0, 0, 0, 0, 0, 0, 0, 0, 0, 0,
      0, 0, 0, 0, 0, 0, 0, 0, 0, 0, 0, 0, 0, 0, 0, 1,
      0, 0, 0, 0, 0, 0, 0, 0, 0, 0, 0, 0, 136, 223, 89, 47,
      142, 181, 215, 189, 56, 191, 239, 125, 235, 15, 188, 2, 207, 55, 120, 160,
      0, 0, 0, 0, 0, 0, 0, 0, 0, 0, 0, 0, 0, 0, 0, 0,
      0, 0, 0, 0, 0, 0, 0, 0, 0, 0, 0, 0, 0, 0, 0, 96,
      0, 0, 0, 0, 0, 0, 0, 0, 0, 0, 0, 0, 0, 0, 0, 0,
      0, 0, 0, 0, 0, 0, 0, 0, 0, 0, 0, 0, 0, 0, 0, 4,
      24, 22, 13, 221, 0, 0, 0, 0, 0, 0, 0, 0, 0, 0, 0, 0,
      0, 0, 0, 0, 0, 0, 0, 0, 0, 0, 0, 0, 0, 0, 0, 0>>

InitEVM ==
    /\ ReporterOff("evm")
    /\ SharedOff
    /\ BatchOff
    /\ evm_pc = "new"
    /\ q \in {<<query>> : query \in EVMCalls}
    /\ query_data = <<>>
    /\ q2 = <<>>
    /\ query_data2 = <<>>

\* q.query_data
ReadQueryData ==
    /\ evm_pc = "new"
    /\ query_data' = QueryData(q[1])
    /\ evm_pc' = "encoded"
    /\ UNCHANGED <<q, q2, query_data2, batchVars, sharedVars, singleVars>>

\* q2 = EVMCall.get_query_from_data(q.query_data)
GetQueryFromData ==
    /\ evm_pc = "encoded"
    /\ q2' = get_query_from_data(query_data)
    /\ evm_pc' = "decoded"
    /\ UNCHANGED <<q, query_data, query_data2, batchVars, sharedVars, singleVars>>

\* q2.query_data
ReadQueryData2 ==
    /\ evm_pc = "decoded"
    /\ q2 # <<>>
    /\ query_data2' = QueryData(q2[1])
    /\ evm_pc' = "done"
    /\ UNCHANGED <<q, query_data, q2, batchVars, sharedVars, singleVars>>

NextEVM ==
    \/ ReadQueryData
    \/ GetQueryFromData
    \/ ReadQueryData2

SpecEVM == InitEVM /\ [][NextEVM]_vars

\* C15: rebuilding a query from its query data is a round trip: for every
\* EVMCall query q, get_query_from_data(q.query_data) is an EVMCall whose
\* query data equal q.query_data, and so has the same query id.
C15_QueryDataRoundTrip ==
    /\ evm_pc \in {"decoded", "done"} => /\ q2 # <<>>
                                          /\ q2[1].type = EVMCallName
    /\ evm_pc = "done" => /\ query_data2 = query_data
                          /\ QueryId(query_data2) = QueryId(query_data)

\* C15 witness: the query of the test, given with a checksum address, has the
\* query data the test expects and was rebuilt from them as a different
\* query (lower-case address) with the same query data
C15_Witness ==
    /\ evm_pc = "done"
    /\ q[1].chainId = 1
    /\ q[1].contractAddress = [bytes |-> TrbAddress, form |-> "checksum"]
    /\ q[1].calldata = TotalSupplyCalldata
    /\ query_data = ExpectedQueryData
    /\ q2 # q
    /\ query_data2 = query_data

(***************************************************************************)
(* filter_batch_result, utils_tip_listener.py lines 54-76.  A dictionary   *)
(* is the sequence of its (key, value) items in insertion order, its keys  *)
(* being distinct; a defaultdict(list) creates the empty list of a key on  *)
(* its first access.                                                        *)
(***************************************************************************)
MaxEntries == 3

Labels == {"current_value", "current_timestamp"}
QueryIds == {"queryid1", "queryid2"}
BatchValues == {0, 123}

\* the tuple keys (label, query_id)
BatchKeys == Labels \X QueryIds

\* the dictionaries given to filter_batch_result
BatchDicts ==
    UNION {{d \in [1..n -> BatchKeys \X BatchValues] :
               \A i \in 1..n : \A j \in 1..n : i # j => d[i][1] # d[j][1]}
           : n \in 0..MaxEntries}

HasKey(d, k) == \E i \in 1..Len(d) : d[i][1] = k

IndexOf(d, k) == CHOOSE i \in 1..Len(d) : d[i][1] = k

\* d[k]
GetItem(d, k) == d[IndexOf(d, k)][2]

\* ListAppend with the list of the key replaced, not appended to
ListAssign(d, k, v) ==
    IF HasKey(d, k)
      THEN [d EXCEPT ![IndexOf(d, k)] = <<k, <<v>>>>]
      ELSE Append(d, <<k, <<v>>>>)

\* d[k].append(v) for a defaultdict(list) d
ListAppend(d, k, v) ==
    IF HasKey(d, k)
      THEN [d EXCEPT ![IndexOf(d, k)] = <<k, Append(@[2], v)>>]
      ELSE Append(d, <<k, <<v>>>>)

\* lines 69-70: mapping after the first n keys of the dictionary
RECURSIVE MappingOf(_, _)
MappingOf(d, n) ==
    IF n = 0 THEN <<>>
    ELSE ListAppend(MappingOf(d, n - 1), d[n][1][2], d[n][1])

\* lines 72-74: results after the first n keys of mapping[query_id]
RECURSIVE InnerLoop(_, _, _, _, _)
InnerLoop(res, d, query_id, ks, n) ==
    IF n = 0 THEN res
    ELSE ListAppend(InnerLoop(res, d, query_id, ks, n - 1), query_id,
                    GetItem(d, ks[n]))

\* lines 71-74: results after the first m query ids of mapping
RECURSIVE OuterLoop(_, _, _)
OuterLoop(d, mapping, m) ==
    IF m = 0 THEN <<>>
    ELSE InnerLoop(OuterLoop(d, mapping, m - 1), d, mapping[m][1],
                   mapping[m][2], Len(mapping[m][2]))

filter_batch_result(d) ==
    LET mapping == MappingOf(d, Len(d))
    IN  OuterLoop(d, mapping, Len(mapping))

InitBatch ==
    /\ ReporterOff("batch")
    /\ SharedOff
    /\ EVMOff
    /\ batch_pc = "call"
    /\ batch_data \in BatchDicts
    /\ batch_results = <<>>

\* results = filter_batch_result(data)
FilterBatchResult ==
    /\ batch_pc = "call"
    /\ batch_results' = filter_batch_result(batch_data)
    /\ batch_pc' = "done"
    /\ UNCHANGED <<batch_data, evmVars, sharedVars, singleVars>>

NextBatch == FilterBatchResult

SpecBatch == InitBatch /\ [][NextBatch]_vars

\* C21: filter_batch_result groups a dictionary keyed by (label, query_id)
\* by the second key component: the keys of the result are exactly the
\* distinct second components, the list of each holds exactly the values of
\* the input entries with that second component, in input insertion order,
\* and every input entry's value is in exactly one list exactly once.
C21_GroupsBySecondComponent ==
    batch_pc = "done" =>
        LET res == batch_results
            entries == 1..Len(batch_data)
            with(query_id) == {i \in entries : batch_data[i][1][2] = query_id}
            nth(query_id, n) ==
                CHOOSE i \in with(query_id) :
                    Cardinality({j \in with(query_id) : j <= i}) = n
        IN  /\ {res[r][1] : r \in 1..Len(res)} = {batch_data[i][1][2] : i \in entries}
            /\ \A r \in 1..Len(res) : \A s \in 1..Len(res) :
                   r # s => res[r][1] # res[s][1]
            /\ \A r \in 1..Len(res) :
                   /\ Len(res[r][2]) = Cardinality(with(res[r][1]))
                   /\ \A n \in 1..Len(res[r][2]) :
                          res[r][2][n] = batch_data[nth(res[r][1], n)][2]
            /\ \A i \in entries :
                   Cardinality({<<r, n>> \in (1..Len(res)) \X entries :
                                   /\ n <= Len(res[r][2])
                                   /\ nth(res[r][1], n) = i}) = 1

\* C21 witness: three entries, the first and the third of one query id with
\* different values, the second of another query id with the value of the
\* first; the call has returned two lists
C21_Witness ==
    /\ batch_pc = "done"
    /\ Len(batch_data) = 3
    /\ batch_data[1][1][2] = batch_data[3][1][2]
    /\ batch_data[1][1][2] # batch_data[2][1][2]
    /\ batch_data[1][2] = 123
    /\ batch_data[2][2] = 123
    /\ batch_data[3][2] = 0
    /\ Len(batch_results) = 2
    /\ batch_results[1][2] = <<123, 0>>

\* C22: when the getDataBefore oracle read fails, get_tellor_latest_data
\* returns None and conditions_met treats it like an absent prior record: it
\* returns true and the cycle enters report_once instead of being skipped.
C22_ReadFailureFailsOpen ==
    (reporter = "conditional" /\ "oracle_read" \in fails)
      => /\ tellor_data = <<>>
         /\ cond_ret = "true"
         /\ pc = "c_report_once" \/ "report_once" \in steps

\* the account transaction count a bundle's transaction was signed with
AccountCountOf(b) == b.bundle[1].signed_transaction.params.nonce

\* how many of the first n bundles sent, taken in target block order, the
\* chain can include when the account's transaction count is count: a
\* transaction is valid only with the account's current transaction count,
\* which its inclusion increases by one
RECURSIVE IncludedCount(_, _, _)
IncludedCount(bs, n, count) ==
    IF n = 0 THEN 0
    ELSE LET before == IncludedCount(bs, n - 1, count)
         IN  IF AccountCountOf(bs[n]) = count + before
               THEN before + 1
               ELSE before

\* C23: within one report_once cycle at most one transaction is signed, and
\* every bundle sent in the cycle, five when no send fails, holds that one
\* signed transaction (same account transaction count, same oracle nonce), so
\* at most one value submission of the cycle can be included on the chain.
C23_OneSignedTransactionPerCycle ==
    reporter = "flashbots" =>
        /\ signed_count <= 1
        /\ bundles # <<>> => signed_count = 1 /\ built_tx # <<>>
        /\ Len(bundles) <= 5
        /\ ("send" \in steps /\ pc # "crashed") => Len(bundles) = 5
        /\ \A k \in 1..Len(bundles) :
               /\ bundles[k].bundle = Bundle(built_tx[1])
               /\ bundles[k].target_block_number = block + k
               /\ AccountCountOf(bundles[k]) = built_tx[1].params.nonce
               /\ bundles[k].bundle[1].signed_transaction._nonce = timestamp_count
        /\ \A count \in AccountNonces \cup {n + 1 : n \in AccountNonces} :
               IncludedCount(bundles, Len(bundles), count) <= 1

\* C23 witness: one transaction was signed and five bundles holding it were
\* sent; the chain can include it once
C23_Witness ==
    /\ pc = "wait"
    /\ signed_count = 1
    /\ Len(bundles) = 5
    /\ \A k \in 1..5 : bundles[k].bundle = bundles[1].bundle
    /\ IncludedCount(bundles, 5, AccountCountOf(bundles[1])) = 1

\* C24: ConditionalReporter.report called with report_count = n (n >= 0) runs
\* exactly n cycles, each ending with exactly one sleep whatever the outcome
\* of the online, native-token and condition checks, and then terminates;
\* called with report_count None it never terminates on its own.  A cycle
\* that was started is left only through the sleep, which counts it; the
\* loop ends only with the count at 0; with None it does not end.
C24_ReportCountCycles ==
    /\ [](reporter = "conditional"
            => /\ pc # "crashed"
               /\ pc = "c_done" => report_count = 0
               /\ report_count = None => pc # "c_done")
    /\ [][ reporter = "conditional"
             => /\ (pc \in {"c_online", "c_cond", "c_report_once"})
                     => pc' \in {"c_online", "c_cond", "c_report_once", "c_sleep"}
                /\ (pc # "c_loop" /\ pc' = "c_loop")
                     => /\ pc = "c_sleep"
                        /\ report_count' =
                             IF report_count = None THEN None ELSE report_count - 1
                /\ (pc = "c_loop" /\ pc' = "c_online")
                     => report_count = None \/ report_count > 0 ]_vars
====
